---- MODULE Spec2Model ----
(***************************************************************************)
(* BuildPropReader (twrpdtgen/info_extractors/buildprop.py): the           *)
(* constructor reads a build.prop text and fills eight attributes by       *)
(* regular-expression searches over it.                                    *)
(*                                                                         *)
(* A text is a sequence of one-character strings.  A compiled pattern      *)
(* (non-capturing alternation k1|k2|..., then a group capturing the rest   *)
(* of the line, then $, compiled with re.MULTILINE) is the sequence of its *)
(* alternatives k1, k2, ... in source order; the common tail is part of    *)
(* search.  Inside an alternative the character "." is the regex           *)
(* metacharacter (any character but a newline), as in the source, where    *)
(* it is not escaped.                                                      *)
(***************************************************************************)
EXTENDS Integers, Sequences, FiniteSets, TLC

\* Largest number of properties of the input file that differ from the
\* plain build.prop (one 'key=value' line per property).
MaxDeviations == 2

NL == "\n"

----------------------------------------------------------------------------
(* The compiled patterns, buildprop.py lines 6-21.                         *)

DEVICE_CODENAME_RE ==
  << <<"r","o",".","p","r","o","d","u","c","t",".","d","e","v","i","c","e","=">>,
     <<"r","o",".","s","y","s","t","e","m",".","d","e","v","i","c","e","=">>,
     <<"r","o",".","v","e","n","d","o","r",".","d","e","v","i","c","e","=">>,
     <<"r","o",".","p","r","o","d","u","c","t",".","s","y","s","t","e","m",".","d","e","v","i","c","e","=">> >>

DEVICE_MANUFACTURER_RE ==
  << <<"r","o",".","p","r","o","d","u","c","t",".","m","a","n","u","f","a","c","t","u","r","e","r","=">>,
     <<"r","o",".","p","r","o","d","u","c","t",".","s","y","s","t","e","m",".","m","a","n","u","f","a","c","t","u","r","e","r","=">>,
     <<"r","o",".","p","r","o","d","u","c","t",".","v","e","n","d","o","r",".","m","a","n","u","f","a","c","t","u","r","e","r","=">> >>

DEVICE_PLATFORM_RE ==
  << <<"r","o",".","b","o","a","r","d",".","p","l","a","t","f","o","r","m","=">>,
     <<"r","o",".","h","a","r","d","w","a","r","e",".","k","e","y","s","t","o","r","e","=">> >>

DEVICE_BRAND_RE ==
  << <<"r","o",".","p","r","o","d","u","c","t",".","b","r","a","n","d","=">>,
     <<"r","o",".","p","r","o","d","u","c","t",".","s","y","s","t","e","m",".","b","r","a","n","d","=">>,
     <<"r","o",".","p","r","o","d","u","c","t",".","v","e","n","d","o","r",".","b","r","a","n","d","=">> >>

DEVICE_MODEL_RE ==
  << <<"r","o",".","p","r","o","d","u","c","t",".","m","o","d","e","l","=">>,
     <<"r","o",".","p","r","o","d","u","c","t",".","s","y","s","t","e","m",".","m","o","d","e","l","=">>,
     <<"r","o",".","p","r","o","d","u","c","t",".","v","e","n","d","o","r",".","m","o","d","e","l","=">> >>

DEVICE_ARCH_RE ==
  << <<"r","o",".","p","r","o","d","u","c","t",".","c","p","u",".","a","b","i","=">>,
     <<"r","o",".","p","r","o","d","u","c","t",".","c","p","u",".","a","b","i","l","i","s","t","=">> >>

DEVICE_IS_AB_RE ==
  << <<"r","o",".","b","u","i","l","d",".","a","b","_","u","p","d","a","t","e","=","t","r","u","e">> >>

----------------------------------------------------------------------------
(* re.Pattern.search for patterns of this shape.                           *)

\* One pattern character against one text character: "." matches every
\* character except the newline, any other character matches itself.
PatChar(p, c) == IF p = "." THEN c # NL ELSE p = c

\* The alternative pat matches the text s at position p.
MatchAt(pat, s, p) ==
  /\ p + Len(pat) - 1 <= Len(s)
  /\ \A i \in 1..Len(pat) : PatChar(pat[i], s[p + i - 1])

\* The leftmost alternative of regex matching at p, 0 when there is none.
FirstAlt(regex, s, p) ==
  IF \E a \in 1..Len(regex) : MatchAt(regex[a], s, p)
  THEN CHOOSE a \in 1..Len(regex) :
         /\ MatchAt(regex[a], s, p)
         /\ \A b \in 1..(a - 1) : ~MatchAt(regex[b], s, p)
  ELSE 0

\* The least element of a non-empty set of positions.
Least(P) == CHOOSE p \in P : \A q \in P : p <= q

\* Where the greedy capture group started at q stops: the first newline at
\* or after q, or one past the end of the text.
LineEnd(s, q) ==
  Least({ e \in q..Len(s) : s[e] = NL } \cup { Len(s) + 1 })

\* The result of a search that finds nothing (Python's None).
NoMatch == [found |-> FALSE, start |-> 0, alt |-> 0, group1 |-> << >>]

\* The match of regex at position p, where some alternative matches: the
\* group is the text from the end of the alternative to the end of the line.
MatchObject(regex, s, p) ==
  LET a == FirstAlt(regex, s, p)
      q == p + Len(regex[a])
  IN [found |-> TRUE, start |-> p, alt |-> a,
      group1 |-> SubSeq(s, q, LineEnd(s, q) - 1)]

\* regex.search(s): the match at the leftmost position of s.
search(regex, s) ==
  LET P == { p \in 1..Len(s) : FirstAlt(regex, s, p) # 0 }
  IN IF P = { } THEN NoMatch ELSE MatchObject(regex, s, Least(P))

----------------------------------------------------------------------------
(* str.lower and str.startswith.                                           *)

UpperCase == <<"A","B","C","D","E","F","G","H","I","J","K","L","M","N","O","P","Q","R","S","T","U","V","W","X","Y","Z">>
LowerCase == <<"a","b","c","d","e","f","g","h","i","j","k","l","m","n","o","p","q","r","s","t","u","v","w","x","y","z">>

LowerChar(c) ==
  IF \E i \in 1..Len(UpperCase) : UpperCase[i] = c
  THEN LowerCase[CHOOSE i \in 1..Len(UpperCase) : UpperCase[i] = c]
  ELSE c

\* A reader that keeps the manufacturer's case.
lower_kept(s) == s

lower(s) == [i \in 1..Len(s) |-> LowerChar(s[i])]

startswith(s, prefix) ==
  /\ Len(prefix) <= Len(s)
  /\ SubSeq(s, 1, Len(prefix)) = prefix

----------------------------------------------------------------------------
(* BuildPropReader.parse_arch, lines 56-73.                                *)

\* parse_arch returning the text it was given when no prefix applies.
parse_arch_passthrough(arch) ==
  IF startswith(arch, <<"a","r","m","6","4">>) THEN <<"a","r","m","6","4">>
  ELSE IF startswith(arch, <<"a","r","m","e","a","b","i">>) THEN <<"a","r","m">>
  ELSE IF startswith(arch, <<"x","8","6">>) THEN <<"x","8","6">>
  ELSE IF startswith(arch, <<"x","8","6","_","6","4">>) THEN <<"x","8","6","_","6","4">>
  ELSE IF startswith(arch, <<"m","i","p","s">>) THEN <<"m","i","p","s">>
  ELSE arch

\* parse_arch testing x86_64 before x86.
parse_arch_x86_64_first(arch) ==
  IF startswith(arch, <<"a","r","m","6","4">>) THEN <<"a","r","m","6","4">>
  ELSE IF startswith(arch, <<"a","r","m","e","a","b","i">>) THEN <<"a","r","m">>
  ELSE IF startswith(arch, <<"x","8","6","_","6","4">>) THEN <<"x","8","6","_","6","4">>
  ELSE IF startswith(arch, <<"x","8","6">>) THEN <<"x","8","6">>
  ELSE IF startswith(arch, <<"m","i","p","s">>) THEN <<"m","i","p","s">>
  ELSE <<"u","n","k","n","o","w","n">>

\* parse_arch taking every arm prefix for the 32-bit arm.
parse_arch_arm_prefix(arch) ==
  IF startswith(arch, <<"a","r","m","6","4">>) THEN <<"a","r","m","6","4">>
  ELSE IF startswith(arch, <<"a","r","m">>) THEN <<"a","r","m">>
  ELSE IF startswith(arch, <<"x","8","6">>) THEN <<"x","8","6">>
  ELSE IF startswith(arch, <<"x","8","6","_","6","4">>) THEN <<"x","8","6","_","6","4">>
  ELSE IF startswith(arch, <<"m","i","p","s">>) THEN <<"m","i","p","s">>
  ELSE <<"u","n","k","n","o","w","n">>

parse_arch(arch) ==
  IF startswith(arch, <<"a","r","m","6","4">>) THEN <<"a","r","m","6","4">>
  ELSE IF startswith(arch, <<"a","r","m","e","a","b","i">>) THEN <<"a","r","m">>
  ELSE IF startswith(arch, <<"x","8","6">>) THEN <<"x","8","6">>
  ELSE IF startswith(arch, <<"x","8","6","_","6","4">>) THEN <<"x","8","6","_","6","4">>
  ELSE IF startswith(arch, <<"m","i","p","s">>) THEN <<"m","i","p","s">>
  ELSE <<"u","n","k","n","o","w","n">>

\* BuildPropReader._error, lines 75-80: the AssertionError's message.
_error(prop) == << "Device ", prop, " could not be found in build.prop" >>

\* BuildPropReader.get_prop, lines 49-54, on the text s.
get_prop(s, regex, error) ==
  LET match == search(regex, s) IN
  IF match.found
  THEN [raised |-> FALSE, value |-> match.group1, message |-> << >>]
  ELSE [raised |-> TRUE, value |-> << >>, message |-> _error(error)]

\* line 47: self.arch in ("arm64", "x86_64")
has_64bit_arch(arch) == arch \in { <<"a","r","m","6","4">>, <<"x","8","6","_","6","4">> }

----------------------------------------------------------------------------
(* The input files.  A file is built from one block of lines per property; *)
(* the blocks are laid out in FileOrder, which is not the order of the     *)
(* lookups, and the lines are joined by newlines.                          *)

\* The six looked-up properties, in the order of lines 40-45.
Props == << "codename", "manufacturer", "platform", "brand", "model", "arch" >>

PropSet == { Props[i] : i \in 1..Len(Props) }

SlotSet == PropSet \cup { "device_is_ab" }

FileOrder ==
  << "arch", "model", "device_is_ab", "codename", "brand", "manufacturer",
     "platform" >>

RegexOf(f) ==
  CASE f = "codename" -> DEVICE_CODENAME_RE
    [] f = "manufacturer" -> DEVICE_MANUFACTURER_RE
    [] f = "platform" -> DEVICE_PLATFORM_RE
    [] f = "brand" -> DEVICE_BRAND_RE
    [] f = "model" -> DEVICE_MODEL_RE
    [] f = "arch" -> DEVICE_ARCH_RE
    [] f = "device_is_ab" -> DEVICE_IS_AB_RE

RegexName(f) ==
  CASE f = "codename" -> "DEVICE_CODENAME_RE"
    [] f = "manufacturer" -> "DEVICE_MANUFACTURER_RE"
    [] f = "platform" -> "DEVICE_PLATFORM_RE"
    [] f = "brand" -> "DEVICE_BRAND_RE"
    [] f = "model" -> "DEVICE_MODEL_RE"
    [] f = "arch" -> "DEVICE_ARCH_RE"
    [] f = "device_is_ab" -> "DEVICE_IS_AB_RE"

\* The value of the property's line in the plain file.
PlainValue(f) ==
  CASE f = "codename" -> <<"a","5","1">>
    [] f = "manufacturer" -> <<"S","a","m","S","u","n","g">>
    [] f = "platform" -> <<"e","x","y","n","o","s">>
    [] f = "brand" -> <<"G","a","l","a","x","y">>
    [] f = "model" -> <<"S","M","-","A","5">>
    [] f = "arch" -> <<"a","r","m","6","4","-","v","8","a">>
    [] f = "device_is_ab" -> << >>

\* Other values of the abi/abilist line.
ArchValues ==
  { <<"a","r","m","e","a","b","i","-","v","7","a">>, <<"x","8","6">>, <<"x","8","6","_","6","4">>, <<"m","i","p","s">>, <<"r","i","s","c","v","6","4">>,
    <<"a","r","m","v","7">>, <<"a","r","m","6","4","-","v","8","a",",","a","r","m","e","a","b","i">>, << >> }

\* Shapes of a property's block other than the plain one.
Shapes(f) ==
  CASE f = "codename" ->
         { "absent", "alias", "later_first", "repeat", "wild_first",
           "wild_only", "prefix_first", "comment_only" }
    [] f = "manufacturer" -> { "absent", "later_first", "wild_only" }
    [] f = "platform" -> { "absent", "comment_only", "wild_only" }
    [] f = "brand" -> { "absent", "alias", "wild_only" }
    [] f = "model" -> { "absent", "prefix_first", "wild_only" }
    [] f = "arch" -> { "absent", "alias", "wild_only" }
    [] f = "device_is_ab" ->
         { "absent", "wild_only", "comment_only", "false" }

Default(f) == [shape |-> "plain", value |-> PlainValue(f)]

NonDefault(f) ==
  { [shape |-> sh, value |-> PlainValue(f)] : sh \in Shapes(f) } \cup
  (IF f = "arch" THEN { [shape |-> "plain", value |-> v] : v \in ArchValues }
   ELSE { })

\* A key that is not the key k but that k, read as a pattern, matches.
WildKey(k) == [i \in 1..Len(k) |-> IF i = 3 THEN "_" ELSE k[i]]

\* The lines of property f's block.
Block(f, opt) ==
  LET re == RegexOf(f)
      k1 == re[1]
      kn == re[Len(re)]
      v  == opt.value
      t(x) == IF f = "device_is_ab" THEN << >> ELSE x
  IN CASE opt.shape = "plain" -> << k1 \o v >>
       [] opt.shape = "absent" -> << >>
       [] opt.shape = "alias" -> << kn \o v >>
       [] opt.shape = "later_first" -> << kn \o <<"z","z">>, k1 \o v >>
       [] opt.shape = "repeat" -> << k1 \o <<"r","r">>, k1 \o v >>
       [] opt.shape = "wild_first" ->
            << WildKey(k1) \o <<"w","w">>, kn \o <<"z","z">>, k1 \o v >>
       [] opt.shape = "wild_only" -> << WildKey(k1) \o t(<<"w","w">>) >>
       [] opt.shape = "prefix_first" ->
            << <<"p","e","r","s","i","s","t",".">> \o k1 \o <<"p","p">>, k1 \o v >>
       [] opt.shape = "comment_only" -> << <<"#">> \o k1 \o t(<<"c","c">>) >>
       [] opt.shape = "false" -> << <<"r","o",".","b","u","i","l","d",".","a","b","_","u","p","d","a","t","e","=","f","a","l","s","e">> >>

RECURSIVE LinesOf(_, _)
LinesOf(cfg, i) ==
  IF i > Len(FileOrder) THEN << >>
  ELSE Block(FileOrder[i], cfg[FileOrder[i]]) \o LinesOf(cfg, i + 1)

RECURSIVE Join(_)
Join(lines) ==
  IF lines = << >> THEN << >>
  ELSE IF Len(lines) = 1 THEN lines[1]
  ELSE lines[1] \o << NL >> \o Join(Tail(lines))

Render(cfg) == Join(LinesOf(cfg, 1))

ConfigsDeviating(D) ==
  { [f \in SlotSet |-> IF f \in D THEN c[f] ELSE Default(f)] :
      c \in { c \in [D -> UNION { NonDefault(f) : f \in D }] :
                \A f \in D : c[f] \in NonDefault(f) } }

Configs ==
  UNION { ConfigsDeviating(D) :
            D \in { D \in SUBSET SlotSet : Cardinality(D) <= MaxDeviations } }

----------------------------------------------------------------------------
(* The constructor as a state machine: one step per statement of lines     *)
(* 40-47.                                                                  *)

\* content:  self._content, the text read at line 37
\* self:     the attributes assigned so far, name -> value
\* pc:       the statement to run next, "done" or "raise"
\* searches: the patterns searched so far, in order
\* result:   what the caller of BuildPropReader(file) gets
VARIABLES content, self, pc, searches, result

vars == << content, self, pc, searches, result >>

Attributes ==
  { "codename", "manufacturer", "platform", "brand", "model", "arch",
    "device_is_ab", "device_has_64bit_arch" }

\* __init__ without the statement of line 43.
After_without_brand(stmt) ==
  CASE stmt = "codename" -> "manufacturer"
    [] stmt = "manufacturer" -> "platform"
    [] stmt = "platform" -> "model"
    [] stmt = "brand" -> "model"
    [] stmt = "model" -> "arch"
    [] stmt = "arch" -> "device_is_ab"
    [] stmt = "device_is_ab" -> "device_has_64bit_arch"
    [] stmt = "device_has_64bit_arch" -> "done"

\* __init__ with the statements of lines 42 and 43 exchanged.
After_brand_first(stmt) ==
  CASE stmt = "codename" -> "manufacturer"
    [] stmt = "manufacturer" -> "brand"
    [] stmt = "brand" -> "platform"
    [] stmt = "platform" -> "model"
    [] stmt = "model" -> "arch"
    [] stmt = "arch" -> "device_is_ab"
    [] stmt = "device_is_ab" -> "device_has_64bit_arch"
    [] stmt = "device_has_64bit_arch" -> "done"

\* The statement after stmt in the body of __init__.
After(stmt) ==
  CASE stmt = "codename" -> "manufacturer"
    [] stmt = "manufacturer" -> "platform"
    [] stmt = "platform" -> "brand"
    [] stmt = "brand" -> "model"
    [] stmt = "model" -> "arch"
    [] stmt = "arch" -> "device_is_ab"
    [] stmt = "device_is_ab" -> "device_has_64bit_arch"
    [] stmt = "device_has_64bit_arch" -> "done"

NoAttributes == [a \in { } |-> << >>]

Init ==
  /\ \E cfg \in Configs : content = Render(cfg)
  /\ self = NoAttributes
  /\ pc = "codename"
  /\ searches = << >>
  /\ result = [kind |-> "pending"]

\* self.<attr> = <the value r of get_prop, through convert>, or the
\* AssertionError of get_prop leaves __init__.
Store(attr, r, v) ==
  IF r.raised
  THEN /\ pc' = "raise"
       /\ result' = [kind |-> "raised", message |-> r.message]
       /\ UNCHANGED self
  ELSE /\ self' = (attr :> v) @@ self
       /\ pc' = After(attr)
       /\ UNCHANGED result

\* line 40
GetCodename ==
  /\ pc = "codename"
  /\ searches' = Append(searches, "DEVICE_CODENAME_RE")
  /\ LET r == get_prop(content, DEVICE_CODENAME_RE, "codename")
     IN Store("codename", r, r.value)
  /\ UNCHANGED content

\* line 41
GetManufacturer ==
  /\ pc = "manufacturer"
  /\ searches' = Append(searches, "DEVICE_MANUFACTURER_RE")
  /\ LET r == get_prop(content, DEVICE_MANUFACTURER_RE, "manufacturer")
     IN Store("manufacturer", r, lower(r.value))
  /\ UNCHANGED content

\* line 42
GetPlatform ==
  /\ pc = "platform"
  /\ searches' = Append(searches, "DEVICE_PLATFORM_RE")
  /\ LET r == get_prop(content, DEVICE_PLATFORM_RE, "platform")
     IN Store("platform", r, r.value)
  /\ UNCHANGED content

\* line 43
GetBrand ==
  /\ pc = "brand"
  /\ searches' = Append(searches, "DEVICE_BRAND_RE")
  /\ LET r == get_prop(content, DEVICE_BRAND_RE, "brand")
     IN Store("brand", r, r.value)
  /\ UNCHANGED content

\* line 44
GetModel ==
  /\ pc = "model"
  /\ searches' = Append(searches, "DEVICE_MODEL_RE")
  /\ LET r == get_prop(content, DEVICE_MODEL_RE, "model")
     IN Store("model", r, r.value)
  /\ UNCHANGED content

\* line 45
GetArch ==
  /\ pc = "arch"
  /\ searches' = Append(searches, "DEVICE_ARCH_RE")
  /\ LET r == get_prop(content, DEVICE_ARCH_RE, "arch")
     IN Store("arch", r, parse_arch(r.value))
  /\ UNCHANGED content

\* line 46
SetDeviceIsAb ==
  /\ pc = "device_is_ab"
  /\ searches' = Append(searches, "DEVICE_IS_AB_RE")
  /\ self' = ("device_is_ab" :> search(DEVICE_IS_AB_RE, content).found) @@ self
  /\ pc' = After("device_is_ab")
  /\ UNCHANGED << content, result >>

\* line 47, and the return of the constructed reader
SetDeviceHas64bitArch ==
  /\ pc = "device_has_64bit_arch"
  /\ self' = ("device_has_64bit_arch" :> has_64bit_arch(self["arch"])) @@ self
  /\ pc' = After("device_has_64bit_arch")
  /\ result' = [kind |-> "reader", reader |-> self']
  /\ UNCHANGED << content, searches >>

Next ==
  \/ GetCodename
  \/ GetManufacturer
  \/ GetPlatform
  \/ GetBrand
  \/ GetModel
  \/ GetArch
  \/ SetDeviceIsAb
  \/ SetDeviceHas64bitArch

Spec == Init /\ [][Next]_vars

----------------------------------------------------------------------------
(* The text of the file as its reader sees it: lines, and the recognized   *)
(* key strings of the table of properties, taken letter by letter.         *)

\* The positions at which a line of s starts.
LineStarts(s) == { 1 } \cup { i + 1 : i \in { j \in 1..Len(s) : s[j] = NL } }

\* One past the last character of the line that starts at b.
EndOfLine(s, b) ==
  CHOOSE e \in b..(Len(s) + 1) :
    /\ e = Len(s) + 1 \/ s[e] = NL
    /\ \A j \in b..(e - 1) : s[j] # NL

\* The start of the line that holds position p.
StartOfLine(s, p) ==
  CHOOSE b \in LineStarts(s) : b <= p /\ p <= EndOfLine(s, b)

\* The string k stands in s at position p.
OccursAt(k, s, p) ==
  /\ p + Len(k) - 1 <= Len(s)
  /\ SubSeq(s, p, p + Len(k) - 1) = k

Occurs(k, s) == \E p \in 1..Len(s) : OccursAt(k, s, p)

\* The recognized key strings of a property.
Keys(f) == { RegexOf(f)[i] : i \in 1..Len(RegexOf(f)) }

\* The line starting at b is a recognized key line of f: it starts with one
\* of f's keys.
KeyLine(f, s, b) == \E k \in Keys(f) : OccursAt(k, s, b)

\* The starts of the lines that carry a key of f, at any place of the line.
CarryingLines(f, s) ==
  { b \in LineStarts(s) :
      \E k \in Keys(f) : \E p \in b..EndOfLine(s, b) : OccursAt(k, s, p) }

\* The texts between the "=" of a key of f on the line at b and the end of
\* that line.
CarriedValues(f, s, b) ==
  { SubSeq(s, p + Len(k), EndOfLine(s, b) - 1) :
      << k, p >> \in { kp \in Keys(f) \X (b..EndOfLine(s, b)) :
                         OccursAt(kp[1], s, kp[2]) } }

\* What the attribute f holds for the captured text v.
Held(f, v) ==
  CASE f = "manufacturer" -> lower(v)
    [] f = "arch" -> parse_arch(v)
    [] OTHER -> v

\* Every line is key=value: a non-empty key at the start of the line, then
\* "=", then the value.
WellFormed(s) ==
  \A b \in LineStarts(s) :
    /\ b <= Len(s)
    /\ s[b] \notin { "=", NL }
    /\ \E p \in b..(EndOfLine(s, b) - 1) : s[p] = "="

\* Every required property has a recognized key line.
AllKeyed(s) ==
  \A f \in PropSet : \E b \in LineStarts(s) : KeyLine(f, s, b)

\* The text between the "=" that ends the key matched for f and the end of
\* that line.
Captured(f) ==
  LET m == search(RegexOf(f), content)
      q == m.start + Len(RegexOf(f)[m.alt])
  IN SubSeq(content, q, EndOfLine(content, q) - 1)

\* x is v with every uppercase letter replaced by its lowercase letter.
IsLowercaseOf(x, v) ==
  /\ Len(x) = Len(v)
  /\ \A i \in 1..Len(v) :
       IF \E j \in 1..Len(UpperCase) : UpperCase[j] = v[i]
       THEN \E j \in 1..Len(UpperCase) :
              UpperCase[j] = v[i] /\ x[i] = LowerCase[j]
       ELSE x[i] = v[i]

\* The required properties for which the lookup finds no match, as
\* positions in Props.
Unmatched ==
  { i \in 1..Len(Props) : ~search(RegexOf(Props[i]), content).found }

\* The properties none of whose key strings stands anywhere in s.
Lacking(s) == { f \in PropSet : \A k \in Keys(f) : ~Occurs(k, s) }

----------------------------------------------------------------------------
(* The claims.                                                             *)

\* C1: on a well-formed input with a recognized key line for every required
\* property, construction does not fail, and codename, platform, brand and
\* model are exactly the text between the "=" of the matched key and the
\* end of that line, manufacturer that text in lowercase.
C1_ExactCapture ==
  (WellFormed(content) /\ AllKeyed(content))
  => /\ pc # "raise"
     /\ \A f \in DOMAIN self \cap { "codename", "platform", "brand", "model" } :
          self[f] = Captured(f)
     /\ "manufacturer" \in DOMAIN self =>
          IsLowercaseOf(self["manufacturer"], Captured("manufacturer"))

C1_Witness ==
  /\ WellFormed(content) /\ AllKeyed(content)
  /\ result.kind = "reader"
  /\ result.reader["manufacturer"] # Captured("manufacturer")
  /\ result.reader["codename"] = Captured("codename")

\* C2: when the key strings of exactly one required property stand nowhere
\* in the text and every other required property has a recognized key line,
\* construction ends with the error that names that property.
C2_MissingKeyNamed ==
  \A f \in PropSet :
    (/\ Lacking(content) = { f }
     /\ \A g \in PropSet \ { f } :
          \E b \in LineStarts(content) : KeyLine(g, content, b)
     /\ pc \in { "done", "raise" })
    => /\ result.kind = "raised"
       /\ result.message = _error(f)

\* C3 as stated: the arch of a constructed reader is one of arm64, arm, x86,
\* x86_64, unknown.
C3_ArchClosedSet ==
  result.kind = "reader" =>
    result.reader["arch"] \in
      { <<"a","r","m","6","4">>, <<"a","r","m">>, <<"x","8","6">>, <<"x","8","6","_","6","4">>, <<"u","n","k","n","o","w","n">> }

\* C3 amended: the arch of a constructed reader is one of arm64, arm, x86,
\* x86_64, mips, unknown.
C3_ArchClosedSetWithMips ==
  result.kind = "reader" =>
    result.reader["arch"] \in
      { <<"a","r","m","6","4">>, <<"a","r","m">>, <<"x","8","6">>, <<"x","8","6","_","6","4">>, <<"m","i","p","s">>, <<"u","n","k","n","o","w","n">> }

C3_Witness ==
  /\ result.kind = "reader"
  /\ result.reader["arch"] = <<"m","i","p","s">>

\* C4: the match a property's value is captured from starts at the start of
\* a line: a key preceded by other characters on its line neither supplies
\* the value nor satisfies the presence check.
C4_KeyAtLineStart ==
  \A f \in DOMAIN self \cap PropSet :
    search(RegexOf(f), content).start \in LineStarts(content)

\* C5: device_is_ab is true exactly when the text ro.build.ab_update=true
\* stands somewhere in the file, and its absence raises no error.
C5_AbMarker ==
  /\ "device_is_ab" \in DOMAIN self =>
       (self["device_is_ab"] <=> Occurs(DEVICE_IS_AB_RE[1], content))
  /\ (pc = "raise" /\ ~Occurs(DEVICE_IS_AB_RE[1], content)) =>
       "DEVICE_IS_AB_RE" \notin { searches[i] : i \in 1..Len(searches) }

\* C6: in a constructed reader device_has_64bit_arch is true exactly when
\* arch is arm64; arch is never x86_64, and the flag is false when the
\* captured abi starts with x86_64.
C6_Only_arm64_Is64bit ==
  result.kind = "reader" =>
    /\ result.reader["device_has_64bit_arch"] <=>
         (result.reader["arch"] = <<"a","r","m","6","4">>)
    /\ result.reader["arch"] # <<"x","8","6","_","6","4">>
    /\ startswith(get_prop(content, DEVICE_ARCH_RE, "arch").value,
                  <<"x","8","6","_","6","4">>)
         => ~result.reader["device_has_64bit_arch"]

C6_Witness ==
  /\ result.kind = "reader"
  /\ startswith(get_prop(content, DEVICE_ARCH_RE, "arch").value, <<"x","8","6","_","6","4">>)
  /\ ~result.reader["device_has_64bit_arch"]

\* C7: arch is arm64 for a captured text starting with arm64; otherwise arm
\* for one starting with armeabi; otherwise x86 for one starting with x86,
\* x86_64 included; otherwise mips for one starting with mips; otherwise
\* unknown.
C7_PrefixOrder ==
  "arch" \in DOMAIN self =>
    LET a == get_prop(content, DEVICE_ARCH_RE, "arch").value
        is_arm64 == startswith(a, <<"a","r","m","6","4">>)
        is_armeabi == startswith(a, <<"a","r","m","e","a","b","i">>)
        is_x86 == startswith(a, <<"x","8","6">>)
        is_mips == startswith(a, <<"m","i","p","s">>)
    IN /\ is_arm64 => self["arch"] = <<"a","r","m","6","4">>
       /\ (~is_arm64 /\ is_armeabi) => self["arch"] = <<"a","r","m">>
       /\ (~is_arm64 /\ ~is_armeabi /\ is_x86) => self["arch"] = <<"x","8","6">>
       /\ startswith(a, <<"x","8","6","_","6","4">>) => self["arch"] = <<"x","8","6">>
       /\ (~is_arm64 /\ ~is_armeabi /\ ~is_x86 /\ is_mips)
            => self["arch"] = <<"m","i","p","s">>
       /\ (~is_arm64 /\ ~is_armeabi /\ ~is_x86 /\ ~is_mips)
            => self["arch"] = <<"u","n","k","n","o","w","n">>

C7_Witness ==
  /\ "arch" \in DOMAIN self
  /\ startswith(get_prop(content, DEVICE_ARCH_RE, "arch").value, <<"x","8","6","_","6","4">>)
  /\ self["arch"] = <<"x","8","6">>

\* C8: when several lines carry recognized keys of the same property, its
\* value is the one of the earliest of these lines in the file.
C8_EarliestLineWins ==
  \A f \in DOMAIN self \cap PropSet :
    LET B == CarryingLines(f, content) IN
    Cardinality(B) >= 2 =>
      self[f] \in { Held(f, v) : v \in CarriedValues(f, content, Least(B)) }

\* C9: the caller gets a reader only with all eight attributes set, and
\* gets no reader and no attribute when an error is raised.
C9_AllOrNothing ==
  /\ result.kind = "reader" =>
       (pc = "done" /\ DOMAIN result.reader = Attributes)
  /\ result.kind = "raised" => DOMAIN result = { "kind", "message" }
  /\ pc = "done" => result.kind = "reader"
  /\ pc = "raise" => result.kind = "raised"
  /\ pc \notin { "done", "raise" } => result.kind = "pending"

C9_Witness ==
  /\ pc = "raise"
  /\ result.kind = "raised"
  /\ DOMAIN self # { }

\* C10: the lookups run in the order codename, manufacturer, platform,
\* brand, model, arch and construction stops at the first one that finds no
\* match: the error names it, no later property is looked up or assigned,
\* and the A/B marker is not evaluated.
C10_StopsAtFirstMissing ==
  /\ \A i \in 1..Len(searches) :
       searches[i] = RegexName((Props \o << "device_is_ab" >>)[i])
  /\ Unmatched # { } =>
       /\ Len(searches) <= Least(Unmatched)
       /\ DOMAIN self \subseteq { Props[i] : i \in 1..(Least(Unmatched) - 1) }
       /\ pc # "done"
  /\ pc = "raise" =>
       /\ Unmatched # { }
       /\ result.message = _error(Props[Least(Unmatched)])
       /\ searches = [i \in 1..Least(Unmatched) |-> RegexName(Props[i])]
       /\ DOMAIN self = { Props[i] : i \in 1..(Least(Unmatched) - 1) }

C10_Witness ==
  /\ pc = "raise"
  /\ Cardinality(Unmatched) >= 2
  /\ Least(Unmatched) > 1
  /\ result.message = _error(Props[Least(Unmatched)])

====
